---- MODULE Spec2Model ----
(***************************************************************************)
(* State-machine model of api-python/mpp_parser.py: the /parse request     *)
(* handler and ProjectParser.parse_file (task collection, per-task         *)
(* normalisation, hierarchy classification, folder paths, summary).        *)
(*                                                                         *)
(* Python strings are modelled as sequences of one-character strings, so   *)
(* that str(), f-string prefixes, " / " joins and .strip() are computed    *)
(* and not assumed.  Python None is the value None below.  The result of   *)
(* calling an accessor of the MPXJ object graph is a record                *)
(* [st, v]: st = "ok" (a non-null value v), "null" (the accessor returned  *)
(* null) or "raise" (the accessor is missing or raised).                   *)
(***************************************************************************)
EXTENDS Integers, Sequences, FiniteSets, TLC

VARIABLES
    project,    \* the object graph returned by reader.read(path)
    pc,         \* position of the request / of parse_file
    tmpFile,    \* TRUE while the NamedTemporaryFile of parse() exists on disk
    candidates, \* _collect_tasks: the candidate list before de-duplication
    tasks,      \* parse_file: tasks = self._collect_tasks(project)
    all_tasks,  \* parse_file: the list of node dicts built so far
    result,     \* parse_file: its return value (None until it returns)
    exc,        \* the exception propagating out of parse_file ("none" if none)
    response,   \* the JSON body and status returned by parse() (None until then)
    idCall,     \* arguments of a direct _task_id(task, fallback) call
    idResult    \* its return value

vars == <<project, pc, tmpFile, candidates, tasks, all_tasks, result, exc, response,
          idCall, idResult>>

----------------------------------------------------------------------------
(* Bounds of the model.                                                    *)

\* number of task objects in the source graph (handles 1..NumTasks; 0 is null)
NumTasks == 3
\* longest list returned by getAllTasks() / getTasks()
MaxAccLen == 2
\* largest outline level a task reports
MaxLevel == 6
\* largest numeric unique ID / display ID
MaxUid == 11
\* longest list returned by getPredecessors() / getSuccessors()
MaxRelations == 2
\* largest lag of a relation, in days
MaxLag == 2
\* number of task objects in a child-accessor graph
TreeSize == 4
\* largest work of a task, in hours
MaxHours == 8
\* nested Python calls of one recursive function the interpreter allows
\* before RecursionError (sys.getrecursionlimit(), scaled down)
MaxRecursionDepth == 5

Handles == 1..NumTasks

----------------------------------------------------------------------------
(* Python values.                                                          *)

\* Python None; distinct from every string, whose elements are one character
None == <<"None">>

Ok(v)    == [st |-> "ok", v |-> v]
Null(d)  == [st |-> "null", v |-> d]
Raise(d) == [st |-> "raise", v |-> d]

\* a Python float, and a Java double as returned by Duration.getDuration()
Float(x)  == <<"float", x>>
Double(x) == <<"double", x>>

\* _to_float(val): 0.0 for None and for whatever float() rejects
_to_float(val) ==
    IF val = None THEN Float(0)
    ELSE IF val[1] = "double" THEN Float(val[2])
    ELSE Float(0)

DigitChars == <<"0", "1", "2", "3", "4", "5", "6", "7", "8", "9">>

\* str(n) of a non-negative integer
RECURSIVE str_int(_)
str_int(n) ==
    IF n < 10 THEN <<DigitChars[n + 1]>>
    ELSE str_int(n \div 10) \o <<DigitChars[(n % 10) + 1]>>

TaskPrefix    == <<"t", "a", "s", "k", "-">>
OutlinePrefix == <<"o", "u", "t", "l", "i", "n", "e", "-">>
RowPrefix     == <<"r", "o", "w", "-">>

\* f"row-{idx + 1}" for the 0-based position idx = pos - 1 of a 1-based pos
RowFallback(pos) == RowPrefix \o str_int(pos)

\* s.strip(): leading and trailing whitespace removed
RECURSIVE lstrip(_)
lstrip(s) == IF s # <<>> /\ Head(s) = " " THEN lstrip(Tail(s)) ELSE s
RECURSIVE rstrip(_)
rstrip(s) ==
    IF s # <<>> /\ s[Len(s)] = " " THEN rstrip(SubSeq(s, 1, Len(s) - 1)) ELSE s
strip(s) == rstrip(lstrip(s))

----------------------------------------------------------------------------
(* The source object graph.                                                *)

\* A Python None where a task object is expected: every attribute access
\* raises AttributeError.
NoneTask ==
    [uniqueID |-> Raise(0), id |-> Raise(0), outlineNumber |-> Raise(<<>>),
     name |-> Raise(<<>>), outlineLevel |-> Raise(0), summary |-> Raise(FALSE),
     parentTask |-> Raise(0), childTasks |-> Raise(<<>>), wbs |-> Raise(<<>>),
     predecessors |-> Raise(<<>>), successors |-> Raise(<<>>),
     work |-> Raise(None), actualWork |-> Raise(None),
     remainingWork |-> Raise(None), baselineWork |-> Raise(None),
     faulty |-> "none"]

\* task.<accessor>(): the accessor named by task.faulty raises, every other
\* one yields the value the object holds
call(task, accessor, value) ==
    IF task.faulty = accessor THEN Raise(value.v) ELSE value

NoProject == [allTasks |-> Raise(<<>>), tasks |-> Raise(<<>>),
              task |-> [h \in Handles |-> NoneTask]]

\* the task object behind a handle (handle 0 is a null reference)
Obj(h) == IF h = 0 THEN NoneTask ELSE project.task[h]

----------------------------------------------------------------------------
(* ProjectParser._task_id                                                  *)

_task_id_noUnique(task, fallback) ==
    IF task.id.st = "ok" THEN TaskPrefix \o str_int(task.id.v)
    ELSE IF task.outlineNumber.st = "ok" /\ task.outlineNumber.v # <<>>
         THEN OutlinePrefix \o task.outlineNumber.v
    ELSE fallback

_task_id(task, fallback) ==
    IF task.uniqueID.st = "ok" THEN str_int(task.uniqueID.v)
    ELSE IF task.id.st = "ok" THEN TaskPrefix \o str_int(task.id.v)
    ELSE IF task.outlineNumber.st = "ok" /\ task.outlineNumber.v # <<>>
         THEN OutlinePrefix \o task.outlineNumber.v
    ELSE fallback

----------------------------------------------------------------------------
(* ProjectParser._collect_tasks                                            *)

\* Strategy 1 / 2: the non-null elements an accessor returns, nothing when
\* the accessor raises, returns null or returns an empty list
gather(acc) ==
    IF acc.st = "ok" THEN SelectSeq(acc.v, LAMBDA h : h # 0) ELSE <<>>

\* Where the interpreter raises RecursionError once MaxRecursionDepth frames
\* of add_descendants are alive: at the next Python call (CPython >= 3.12,
\* the error propagates out of _collect_tasks), or already inside the
\* getChildTasks() call of the deepest frame (CPython <= 3.11, the error is
\* swallowed by that frame's "except Exception").
RecursionErrorSites == {"call", "accessor"}

\* add_descendants(task) running in frame number depth; acc is
\* [cands: the candidate list, raised: RecursionError is propagating]
RECURSIVE add_descendants(_, _, _, _)
RECURSIVE descend_children(_, _, _, _)
\* a faulty variant that appends the children without descending into them
descend_children_shallow(children, depth, acc, site) ==
    [acc EXCEPT !.cands = @ \o SelectSeq(children, LAMBDA c : c # 0)]

add_descendants(h, depth, acc, site) ==
    LET children == IF site = "accessor" /\ depth >= MaxRecursionDepth
                    THEN Raise(<<>>)
                    ELSE Obj(h).childTasks
    IN  IF children.st # "ok" \/ children.v = <<>> THEN acc
        ELSE descend_children(children.v, depth, acc, site)

descend_children(children, depth, acc, site) ==
    IF children = <<>> \/ acc.raised THEN acc
    ELSE LET child == Head(children)
             a1 == [acc EXCEPT !.cands = Append(@, child)]
             a2 == IF child = 0 THEN acc
                   ELSE IF depth >= MaxRecursionDepth
                        THEN [a1 EXCEPT !.raised = TRUE]
                        ELSE add_descendants(child, depth + 1, a1, site)
         IN  descend_children(Tail(children), depth, a2, site)

\* for task in list(candidates): add_descendants(task)
RECURSIVE descend_roots(_, _, _)
descend_roots(roots, acc, site) ==
    IF roots = <<>> \/ acc.raised THEN acc
    ELSE descend_roots(Tail(roots),
                       add_descendants(Head(roots), 1, acc, site), site)

\* the de-duplication loop, a faulty variant of it that never records an identifier,
\* and one that forgets the positional fallback
RECURSIVE dedup_noSeen(_, _, _, _)
dedup_noSeen(cands, idx, seen, deduped) ==
    IF idx > Len(cands) THEN deduped
    ELSE LET stable_id == _task_id(Obj(cands[idx]), RowFallback(idx))
         IN  IF stable_id \in seen
             THEN dedup_noSeen(cands, idx + 1, seen, deduped)
             ELSE dedup_noSeen(cands, idx + 1, seen,
                               Append(deduped, cands[idx]))

RECURSIVE dedup_loop(_, _, _, _)
dedup_loop(cands, idx, seen, deduped) ==
    IF idx > Len(cands) THEN deduped
    ELSE LET stable_id == _task_id(Obj(cands[idx]), RowFallback(idx))
         IN  IF stable_id \in seen
             THEN dedup_loop(cands, idx + 1, seen, deduped)
             ELSE dedup_loop(cands, idx + 1, seen \cup {stable_id},
                             Append(deduped, cands[idx]))

\* a faulty variant without the try / except around a retrieval strategy
strategy_raises_unguarded(acc) == acc.st = "raise"

\* Strategy 1 / 2: "except Exception: pass" keeps an accessor's failure
\* inside its strategy
strategy_raises(acc) == FALSE

\* [raised, error, candidates, deduped]
_collect_tasks(site) ==
    LET snapshot == gather(project.allTasks) \o gather(project.tasks)
        failed == strategy_raises(project.allTasks)
                      \/ strategy_raises(project.tasks)
        acc == IF failed THEN [cands |-> <<>>, raised |-> TRUE]
               ELSE descend_roots(snapshot,
                                  [cands |-> snapshot, raised |-> FALSE], site)
    IN  [raised |-> acc.raised,
         error |-> IF failed THEN "AccessorError"
                   ELSE IF acc.raised THEN "RecursionError" ELSE "none",
         candidates |-> acc.cands,
         deduped |-> IF acc.raised THEN <<>>
                     ELSE dedup_loop(acc.cands, 1, {}, <<>>)]

----------------------------------------------------------------------------
(* Relations: _extract_relation_tasks, _normalize_relation_type and the    *)
(* predecessor / successor loops of parse_file.  A relation is a record of *)
(* accessor results [predecessorTask, successorTask, sourceTask,           *)
(* targetTask : handle, type : string, lag : number].                      *)

LowerChars == <<"a", "b", "c", "d", "e", "f", "g", "h", "i", "j", "k", "l", "m",
                "n", "o", "p", "q", "r", "s", "t", "u", "v", "w", "x", "y", "z">>
UpperChars == <<"A", "B", "C", "D", "E", "F", "G", "H", "I", "J", "K", "L", "M",
                "N", "O", "P", "Q", "R", "S", "T", "U", "V", "W", "X", "Y", "Z">>

\* s.upper()
upper(s) ==
    [i \in 1..Len(s) |->
        IF \E k \in 1..26 : LowerChars[k] = s[i]
        THEN UpperChars[CHOOSE k \in 1..26 : LowerChars[k] = s[i]]
        ELSE s[i]]

\* sub in s
contains(s, sub) ==
    \E i \in 0..(Len(s) - Len(sub)) : SubSeq(s, i + 1, i + Len(sub)) = sub

FinishStart  == <<"F","I","N","I","S","H","_","S","T","A","R","T">>
StartStart   == <<"S","T","A","R","T","_","S","T","A","R","T">>
FinishFinish == <<"F","I","N","I","S","H","_","F","I","N","I","S","H">>
StartFinish  == <<"S","T","A","R","T","_","F","I","N","I","S","H">>

\* a faulty variant whose default for an unrecognised type is the last kind tested
_normalize_relation_type_lastKind(relation) ==
    LET rel_type == IF relation.type.st = "ok" /\ relation.type.v # <<>>
                    THEN relation.type.v ELSE <<"F", "S">>
        up == upper(rel_type)
        rel_type_upper == SelectSeq(up, LAMBDA c : c # "_")
    IN  IF contains(up, FinishStart) \/ rel_type_upper = <<"F", "S">> THEN "FS"
        ELSE IF contains(up, StartStart) \/ rel_type_upper = <<"S", "S">>
             THEN "SS"
        ELSE IF contains(up, FinishFinish) \/ rel_type_upper = <<"F", "F">>
             THEN "FF"
        ELSE "SF"

_normalize_relation_type(relation) ==
    LET rel_type == IF relation.type.st = "ok" /\ relation.type.v # <<>>
                    THEN relation.type.v ELSE <<"F", "S">>
        up == upper(rel_type)
        rel_type_upper == SelectSeq(up, LAMBDA c : c # "_")
    IN  IF contains(up, FinishStart) \/ rel_type_upper = <<"F", "S">> THEN "FS"
        ELSE IF contains(up, StartStart) \/ rel_type_upper = <<"S", "S">>
             THEN "SS"
        ELSE IF contains(up, FinishFinish) \/ rel_type_upper = <<"F", "F">>
             THEN "FF"
        ELSE IF contains(up, StartFinish) \/ rel_type_upper = <<"S", "F">>
             THEN "SF"
        ELSE "FS"

\* <<predecessor_task, successor_task>>, 0 for None
_extract_relation_tasks(relation) ==
    LET modern(a) == IF a.st = "ok" THEN a.v ELSE 0
        p == modern(relation.predecessorTask)
        s == modern(relation.successorTask)
    IN  <<IF p = 0 THEN modern(relation.sourceTask) ELSE p,
          IF s = 0 THEN modern(relation.targetTask) ELSE s>>

\* str(x or "") of a string accessor result
str_or_empty(a) == IF a.st = "ok" THEN a.v ELSE <<>>

\* a faulty variant without the try / except around one relation's processing
relation_raises_never(relation, endpoint) == FALSE

\* what the body of one relation's try block needs from the endpoint task
\* and the relation; any of them raising skips the relation
relation_raises(relation, endpoint) ==
    \/ relation.lag.st = "raise"
    \/ call(endpoint, "getName", endpoint.name).st = "raise"
    \/ endpoint.faulty = "getExternalTask"

RECURSIVE predecessor_links(_)
predecessor_links(relations) ==
    IF relations = <<>> THEN <<>>
    ELSE LET relation == Head(relations)
             predecessor_task == _extract_relation_tasks(relation)[1]
             predecessor_id == _task_id(Obj(predecessor_task), <<>>)
             rest == predecessor_links(Tail(relations))
         IN  IF predecessor_task = 0 \/ predecessor_id = <<>> THEN rest
             ELSE IF relation_raises(relation, Obj(predecessor_task)) THEN rest
             ELSE <<[predecessorTaskId |-> predecessor_id,
                     predecessorName |->
                         str_or_empty(Obj(predecessor_task).name),
                     relationship |-> _normalize_relation_type(relation),
                     lagDays |-> IF relation.lag.st = "ok"
                                 THEN relation.lag.v ELSE 0,
                     isExternal |-> FALSE]>> \o rest

RECURSIVE successor_links(_)
successor_links(relations) ==
    IF relations = <<>> THEN <<>>
    ELSE LET relation == Head(relations)
             successor_task == _extract_relation_tasks(relation)[2]
             successor_id == _task_id(Obj(successor_task), <<>>)
             rest == successor_links(Tail(relations))
         IN  IF successor_task = 0 \/ successor_id = <<>> THEN rest
             ELSE IF relation_raises(relation, Obj(successor_task)) THEN rest
             ELSE <<[successorTaskId |-> successor_id,
                     successorName |-> str_or_empty(Obj(successor_task).name),
                     relationship |-> _normalize_relation_type(relation),
                     lagDays |-> IF relation.lag.st = "ok"
                                 THEN relation.lag.v ELSE 0,
                     isExternal |-> FALSE]>> \o rest

----------------------------------------------------------------------------
(* parse_file, step 4: the per-task loop building one node per task.       *)

\* per-task accessors parse_file calls outside any try block
UnguardedAccessors ==
    {"getName", "getOutlineLevel", "getSummary", "getParentTask",
     "getResourceAssignments", "getWork", "getActualWork", "getRemainingWork",
     "getBaselineWork", "getStart", "getFinish", "getPercentageComplete",
     "getCritical", "getTotalSlack", "getNotes"}

\* per-task accessors parse_file calls inside a try block of their own
GuardedAccessors ==
    {"getBaselineCost", "getPredecessors", "getSuccessors", "getWBS",
     "getOutlineNumber", "getConstraintType", "getDuration", "getMilestone",
     "getExternalTask", "getPriority", "getDeadline", "getCalendar"}

\* the loop body raises: an accessor called outside a try block raised
node_raises(task) ==
    \/ task.faulty \in UnguardedAccessors
    \/ task.name.st = "raise"
    \/ task.outlineLevel.st = "raise"
    \/ task.summary.st = "raise"
    \/ task.parentTask.st = "raise"
    \/ task.work.st = "raise"
    \/ task.actualWork.st = "raise"
    \/ task.remainingWork.st = "raise"
    \/ task.baselineWork.st = "raise"

\* parent_id = self._task_id(parent_task, fallback='') if parent_task else None
\* if not parent_id: parent_id = None
parent_id_of(task) ==
    IF task.parentTask.st = "ok" /\ task.parentTask.v # 0
    THEN LET pid == _task_id(Obj(task.parentTask.v), <<>>)
         IN  IF pid = <<>> THEN None ELSE pid
    ELSE None

\* self._to_float(task.getWork().getDuration()) if task.getWork() else 0.0,
\* and the same for the actual and the baseline work
work_hours(work) == IF work.st = "ok" THEN _to_float(work.v) ELSE Float(0)

\* a faulty variant that treats the remaining work like the other work values
remaining_hours_zero(work) ==
    IF work.st = "ok" THEN _to_float(work.v) ELSE Float(0)

\* self._to_float(task.getRemainingWork().getDuration())
\*     if task.getRemainingWork() else None
remaining_hours(work) == IF work.st = "ok" THEN _to_float(work.v) ELSE None

\* a faulty variant that numbers the fallback by the task's handle instead of its
\* position in the de-duplicated list
node_id_byHandle(h, pos) == _task_id(Obj(h), RowFallback(h))

\* uid = self._task_id(task, fallback=f"row-{idx + 1}")
node_id(h, pos) == _task_id(Obj(h), RowFallback(pos))

\* the node dict of the task at 1-based position pos of tasks ('folder' is
\* not a key yet: None)
make_node(h, pos) ==
    LET task == Obj(h)
        preds == call(task, "getPredecessors", task.predecessors)
        succs == call(task, "getSuccessors", task.successors)
        wbs == call(task, "getWBS", task.wbs)
    IN  [id |-> node_id(h, pos),
         name |-> str_or_empty(task.name),
         outline_level |-> IF task.outlineLevel.st = "ok"
                           THEN task.outlineLevel.v ELSE 0,
         hierarchy_type |-> "project",
         is_summary |-> task.summary.st = "ok" /\ task.summary.v,
         parent_id |-> parent_id_of(task),
         baselineHours |-> work_hours(task.baselineWork),
         actualHours |-> work_hours(task.actualWork),
         projectedHours |-> work_hours(task.work),
         remainingHours |-> remaining_hours(task.remainingWork),
         predecessors |-> IF preds.st = "ok"
                          THEN predecessor_links(preds.v) ELSE <<>>,
         successors |-> IF succs.st = "ok"
                        THEN successor_links(succs.v) ELSE <<>>,
         wbsCode |-> IF wbs.st = "ok" THEN wbs.v ELSE None,
         folder |-> None]

\* a faulty variant that skips a task whose accessors raise and carries on
RECURSIVE normalize_skipping(_, _)
normalize_skipping(pos, nodes) ==
    IF pos > Len(tasks) THEN [raised |-> FALSE, nodes |-> nodes]
    ELSE IF node_raises(Obj(tasks[pos]))
         THEN normalize_skipping(pos + 1, nodes)
         ELSE normalize_skipping(pos + 1,
                                 Append(nodes, make_node(tasks[pos], pos)))

\* for idx, task in enumerate(tasks): ... all_tasks.append(node)
\* [raised: an exception left the loop, nodes: all_tasks at that point]
RECURSIVE normalize_loop(_, _)
normalize_loop(pos, nodes) ==
    IF pos > Len(tasks) THEN [raised |-> FALSE, nodes |-> nodes]
    ELSE IF node_raises(Obj(tasks[pos]))
         THEN [raised |-> TRUE, nodes |-> nodes]
         ELSE normalize_loop(pos + 1, Append(nodes, make_node(tasks[pos], pos)))

----------------------------------------------------------------------------
(* parse_file: dynamic hierarchy typing.                                   *)

hierarchy_anchor == 2

\* max(outline_levels) if outline_levels else 0, and the same for min
max_outline(nodes) ==
    IF nodes = <<>> THEN 0
    ELSE CHOOSE m \in {nodes[i].outline_level : i \in 1..Len(nodes)} :
             \A i \in 1..Len(nodes) : nodes[i].outline_level <= m
min_outline(nodes) ==
    IF nodes = <<>> THEN 0
    ELSE CHOOSE m \in {nodes[i].outline_level : i \in 1..Len(nodes)} :
             \A i \in 1..Len(nodes) : nodes[i].outline_level >= m

\* a faulty variant whose deepest tier starts one level too early
hierarchy_type_shallow(level, maxOutline) ==
    IF level <= 1 THEN "project"
    ELSE IF level = hierarchy_anchor THEN "unit"
    ELSE IF level = hierarchy_anchor + 1 THEN "phase"
    ELSE IF maxOutline >= hierarchy_anchor + 2 /\ level = maxOutline
         THEN "sub_task"
    ELSE "task"

\* the first loop over all_tasks
hierarchy_type(level, maxOutline) ==
    IF level <= 1 THEN "project"
    ELSE IF level = hierarchy_anchor THEN "unit"
    ELSE IF level = hierarchy_anchor + 1 THEN "phase"
    ELSE IF maxOutline >= hierarchy_anchor + 3 /\ level = maxOutline
         THEN "sub_task"
    ELSE "task"

\* a faulty variant of the second loop that forgets the depth test
override_type_anyDepth(node) ==
    IF node.is_summary \/ node.parent_id = None
    THEN "project"
    ELSE node.hierarchy_type

\* the second loop: the top root level remains project
override_type(node) ==
    IF node.outline_level <= 1 /\ (node.is_summary \/ node.parent_id = None)
    THEN "project"
    ELSE node.hierarchy_type

\* all_tasks after the first loop, and after the second
depth_pass(nodes) ==
    [i \in 1..Len(nodes) |->
        [nodes[i] EXCEPT !.hierarchy_type =
            hierarchy_type(nodes[i].outline_level, max_outline(nodes))]]
override_pass(nodes) ==
    [i \in 1..Len(nodes) |->
        [nodes[i] EXCEPT !.hierarchy_type = override_type(nodes[i])]]

classify(nodes) == override_pass(depth_pass(nodes))

----------------------------------------------------------------------------
(* parse_file: the "folder" path of every node.                            *)

FolderSep == <<" ", "/", " ">>

\* by_id.get(task_id): the position in nodes of the entry the dict built by
\* {str(t.get('id')): t for t in all_tasks} holds under task_id (the last
\* node with that id), 0 when there is none
by_id(nodes, task_id) ==
    LET hits == {i \in 1..Len(nodes) : nodes[i].id = task_id}
    IN  IF hits = {} THEN 0 ELSE CHOOSE i \in hits : \A j \in hits : j <= i

put(cache, key, val) ==
    [k \in DOMAIN cache \cup {key} |-> IF k = key THEN val ELSE cache[k]]

\* a faulty variant that joins the parent's own name without the fallback to the
\* parent id and without strip()
parent_name_raw(parent_node, parent_id) == parent_node.name

\* str(parent_node.get('name') or str(parent_id)).strip()
parent_name_of(parent_node, parent_id) ==
    strip(IF parent_node.name # <<>> THEN parent_node.name ELSE parent_id)

\* build_folder(task_id) running in frame number depth with folder_cache =
\* cache; [cache, val: the returned folder, raised: RecursionError]
RECURSIVE build_folder(_, _, _, _)
build_folder(nodes, task_id, cache, depth) ==
    LET done(v) == [cache |-> put(cache, task_id, v), val |-> v,
                    raised |-> FALSE]
        i == by_id(nodes, task_id)
    IN  IF task_id = <<>> THEN [cache |-> cache, val |-> <<>>, raised |-> FALSE]
        ELSE IF task_id \in DOMAIN cache
             THEN [cache |-> cache, val |-> cache[task_id], raised |-> FALSE]
        ELSE IF i = 0 THEN done(<<>>)
        ELSE IF nodes[i].parent_id = None \/ nodes[i].parent_id = <<>>
             THEN done(<<>>)
        ELSE IF by_id(nodes, nodes[i].parent_id) = 0 THEN done(<<>>)
        ELSE IF depth >= MaxRecursionDepth
             THEN [cache |-> cache, val |-> <<>>, raised |-> TRUE]
        ELSE LET parent_id == nodes[i].parent_id
                 r == build_folder(nodes, parent_id, cache, depth + 1)
                 parent_name ==
                     parent_name_of(nodes[by_id(nodes, parent_id)], parent_id)
                 v == IF r.val # <<>> THEN r.val \o FolderSep \o parent_name
                      ELSE parent_name
             IN  IF r.raised THEN r
                 ELSE [cache |-> put(r.cache, task_id, v), val |-> v,
                       raised |-> FALSE]

\* for node in all_tasks: node['folder'] = build_folder(str(node.get('id')))
\* [raised, nodes]
RECURSIVE folder_loop(_, _, _)
folder_loop(nodes, pos, cache) ==
    IF pos > Len(nodes) THEN [raised |-> FALSE, nodes |-> nodes]
    ELSE LET r == build_folder(nodes, nodes[pos].id, cache, 1)
         IN  IF r.raised THEN [raised |-> TRUE, nodes |-> nodes]
             ELSE folder_loop([nodes EXCEPT ![pos].folder = r.val],
                              pos + 1, r.cache)

----------------------------------------------------------------------------
(* parse_file: the summary and the returned dict.                          *)

\* sum(1 for t in all_tasks if ...) over the sequence of the tests' outcomes
count(flags) == Cardinality({i \in DOMAIN flags : flags[i]})

\* sum(len(...) for t in all_tasks) over a sequence of lengths
RECURSIVE sum_seq(_)
sum_seq(lens) == IF lens = <<>> THEN 0 ELSE Head(lens) + sum_seq(Tail(lens))

\* a faulty variant that divides the leaves by the linked leaves
coverage_percent_inverted(linked, leaves) ==
    IF linked > 0 THEN (20000 * leaves + linked) \div (2 * linked) ELSE 0

\* round(linked / leaves * 100.0, 2) in hundredths of a percent
coverage_percent(linked, leaves) ==
    IF leaves > 0 THEN (20000 * linked + leaves) \div (2 * leaves) ELSE 0

make_result(collected, nodes) ==
    LET leaf(n) == ~n.is_summary
        linked(n) == leaf(n) /\ (n.predecessors # <<>> \/ n.successors # <<>>)
        each(P(_)) == [i \in 1..Len(nodes) |-> P(nodes[i])]
        tier(t) == count(each(LAMBDA n : n.hierarchy_type = t))
        leaves == count(each(leaf))
    IN  [success |-> TRUE,
         project |-> "project_info",
         tasks |-> nodes,
         summary |->
           [total_rows |-> Len(nodes),
            min_outline_level |-> min_outline(nodes),
            max_outline_level |-> max_outline(nodes),
            projects |-> tier("project"),
            units |-> tier("unit"),
            phases |-> tier("phase"),
            tasks |-> tier("task"),
            sub_tasks |-> tier("sub_task"),
            dependencies |->
              [totalPredecessorLinks |->
                   sum_seq([i \in 1..Len(nodes) |->
                               Len(nodes[i].predecessors)]),
               totalSuccessorLinks |->
                   sum_seq([i \in 1..Len(nodes) |->
                               Len(nodes[i].successors)]),
               tasksWithPredecessors |->
                   count(each(LAMBDA n : n.predecessors # <<>>)),
               tasksWithSuccessors |->
                   count(each(LAMBDA n : n.successors # <<>>)),
               totalLeafTasks |-> leaves,
               linkedLeafTasks |-> count(each(linked)),
               isolatedLeafTasks |-> leaves - count(each(linked)),
               coveragePercent |-> coverage_percent(count(each(linked)),
                                                    leaves)],
            taskCollection |->
              [collectedTaskCount |-> Len(collected),
               parsedTaskCount |-> Len(nodes)]]]

----------------------------------------------------------------------------
(* Source graphs the specifications draw from.                             *)

MkTask(uid, tid, outline, name, level, summary, parent, children) ==
    [uniqueID |-> uid, id |-> tid, outlineNumber |-> outline,
     name |-> name, outlineLevel |-> level, summary |-> summary,
     parentTask |-> parent, childTasks |-> children, wbs |-> Null(<<>>),
     predecessors |-> Null(<<>>), successors |-> Null(<<>>),
     work |-> Null(None), actualWork |-> Null(None),
     remainingWork |-> Null(None), baselineWork |-> Null(None),
     faulty |-> "none"]

\* lists of at most n elements, and what an accessor returning them may do
AccLists(n, elems) == UNION {[1..k -> elems] : k \in 0..n}
AccResults(n, elems) ==
    {Raise(<<>>), Null(<<>>)} \cup {Ok(s) : s \in AccLists(n, elems)}

\* one-character names "A", "B", ... by handle
Letters == <<"A", "B", "C", "D", "E", "F", "G", "H">>
NameOf(h) == <<Letters[h]>>

\* a task without any identifier, with the unique ID 1, with its handle as
\* unique ID
NoIdent(h)   == MkTask(Null(0), Null(0), Null(<<>>), Ok(NameOf(h)), Ok(1),
                       Ok(FALSE), Null(0), Null(<<>>))
UniqueOne(h) == [NoIdent(h) EXCEPT !.uniqueID = Ok(1)]
UniqueH(h)   == [NoIdent(h) EXCEPT !.uniqueID = Ok(h)]

\* the first k handles carry the unique ID 1, the others no identifier
IdentPrefixes == {1..k : k \in 0..NumTasks}

\* at most one parent -> child edge in the child accessors
EdgeSets == {<<>>} \cup {<<e>> : e \in Handles \X Handles}
ChildrenOf(h, edges) ==
    LET mine == SelectSeq(edges, LAMBDA e : e[1] = h)
    IN  IF mine = <<>> THEN Null(<<>>)
        ELSE Ok([i \in 1..Len(mine) |-> mine[i][2]])

AllInOrder == Ok([i \in 1..NumTasks |-> i])

\* overlapping accessors, shared identifiers, at most one child edge
CollectProject(all, top, withUid, edges) ==
    [allTasks |-> all, tasks |-> top,
     task |-> [h \in Handles |->
         [(IF h \in withUid THEN UniqueOne(h) ELSE NoIdent(h))
             EXCEPT !.childTasks = ChildrenOf(h, edges)]]]

\* accessors a request explores raising on the first task
ExploredFaults == {"none", "getName", "getOutlineLevel", "getParentTask",
                   "getTotalSlack", "getWBS", "getPredecessors"}

\* a chain 1 <- 2 <- ... of levels 1, 2, ..., overlapping accessors, shared
\* identifiers, one accessor of task 1 possibly raising
ParseProject(all, top, withUid, fault) ==
    [allTasks |-> all, tasks |-> top,
     task |-> [h \in Handles |->
         [(IF h \in withUid THEN UniqueOne(h) ELSE NoIdent(h))
             EXCEPT !.outlineLevel = Ok(h),
                    !.parentTask = IF h = 1 THEN Null(0) ELSE Ok(h - 1),
                    !.summary = Ok(h < NumTasks),
                    !.faulty = IF h = 1 THEN fault ELSE "none"]]]

\* every combination of outline levels, all tasks summary or none, all
\* tasks below task 1 or all without parent
LevelResults == {Null(0)} \cup {Ok(l) : l \in 0..MaxLevel}
ClassifyProject(levels, summary, nested) ==
    [allTasks |-> AllInOrder, tasks |-> Null(<<>>),
     task |-> [h \in Handles |->
         [UniqueH(h) EXCEPT !.outlineLevel = levels[h],
                            !.summary = Ok(summary),
                            !.parentTask = IF nested /\ h > 1 THEN Ok(1)
                                           ELSE Null(0)]]]

\* every parent function (cyclic ones included), names "A", "B", ... with at
\* most one of them replaced, task 1 possibly without identifier
OddNames == {<<>>, <<" ">>, <<" ", "B", " ">>, <<"A", " ", "B">>}
Renamings == {<<0, <<>>>>} \cup (Handles \X OddNames)
FolderProject(parents, renaming, anonymous) ==
    [allTasks |-> AllInOrder, tasks |-> Null(<<>>),
     task |-> [h \in Handles |->
         [(IF h = 1 /\ anonymous THEN NoIdent(h) ELSE UniqueH(h))
             EXCEPT !.name = IF renaming[1] = h THEN Ok(renaming[2])
                             ELSE Ok(NameOf(h)),
                    !.parentTask = IF parents[h] = 0 THEN Null(0)
                                   ELSE Ok(parents[h])]]]

\* child-accessor graphs over TreeSize tasks: tasks 1 and 2 have no child
\* accessor result, any one child or two children, the later tasks none or
\* one child among task 1 and the tasks after them; task 1 may also have a
\* raising accessor, no child or a null among its children
TreeHandles == 1..TreeSize
ChildResults(h) ==
    {Null(<<>>)}
        \cup {Ok(<<c>>) : c \in {d \in TreeHandles : h <= 2 \/ d = 1 \/ d > h}}
        \cup (IF h <= 2 THEN {Ok(<<c, c + 1>>) : c \in 1..(TreeSize - 1)}
              ELSE {})
        \cup (IF h = 1 THEN {Raise(<<>>), Ok(<<>>), Ok(<<0, 2>>)} ELSE {})
ChildGraphs ==
    {g \in [TreeHandles -> UNION {ChildResults(h) : h \in TreeHandles}] :
        \A h \in TreeHandles : g[h] \in ChildResults(h)}

\* what getAllTasks() and getTasks() return on these graphs
TreeRoots == {<<Ok(<<1>>), Null(<<>>)>>, <<Ok(<<0, 1>>), Ok(<<2>>)>>,
              <<Raise(<<>>), Ok(<<2>>)>>}
DescentProject(roots, children) ==
    [allTasks |-> roots[1], tasks |-> roots[2],
     task |-> [h \in TreeHandles |->
         [UniqueH(h) EXCEPT !.childTasks = children[h]]]]

\* relations: a relation between the owning task and the task e (0: none)
\* with both endpoints behind the current accessors, type "FS" and no lag
MkRelation(e) ==
    [predecessorTask |-> IF e = 0 THEN Null(0) ELSE Ok(e),
     successorTask |-> IF e = 0 THEN Null(0) ELSE Ok(e),
     sourceTask |-> Raise(0), targetTask |-> Raise(0),
     type |-> Ok(<<"F", "S">>), lag |-> Null(0)]

\* the same relation behind the older accessors only, and behind none
LegacyRelation(e) ==
    [MkRelation(e) EXCEPT !.predecessorTask = Raise(0),
                          !.successorTask = Null(0),
                          !.sourceTask = IF e = 0 THEN Null(0) ELSE Ok(e),
                          !.targetTask = IF e = 0 THEN Null(0) ELSE Ok(e)]
BrokenRelation ==
    [MkRelation(0) EXCEPT !.predecessorTask = Raise(0),
                          !.successorTask = Raise(0)]

\* what relation.getType() may yield
TypeResults ==
    {Null(<<>>), Raise(<<>>), Ok(<<>>),
     Ok(<<"F", "S">>), Ok(<<"S", "S">>), Ok(<<"F", "F">>), Ok(<<"S", "F">>),
     Ok(<<"s", "f">>), Ok(<<"S", "_", "S">>), Ok(<<"X">>), Ok(<<"F", "S", "S">>),
     Ok(FinishStart), Ok(StartStart), Ok(FinishFinish), Ok(StartFinish),
     Ok(<<"s","t","a","r","t","_","f","i","n","i","s","h">>),
     Ok(<<"S","T","A","R","T","F","I","N","I","S","H">>)}

\* what relation.getLag() may yield (the lag's duration in days)
LagResults == {Ok(0), Ok(MaxLag), Raise(0)}

\* relations that differ from MkRelation in one respect
Relations ==
    {MkRelation(e) : e \in 0..NumTasks}
        \cup {LegacyRelation(e) : e \in 0..NumTasks}
        \cup {BrokenRelation}
        \cup {[MkRelation(2) EXCEPT !.type = t] : t \in TypeResults}
        \cup {[MkRelation(2) EXCEPT !.lag = l] : l \in LagResults}

\* what getPredecessors() / getSuccessors() may yield: it raises, returns
\* null, or a list of plain relations to the identified tasks in turn, one
\* of them replaced by any relation of Relations
PlainRelations(n) ==
    [i \in 1..n |-> MkRelation((i % (NumTasks - 1)) + 1)]
RelationLists ==
    {<<>>} \cup {[PlainRelations(n) EXCEPT ![p] = r] :
                     n \in 1..MaxRelations, p \in 1..MaxRelations,
                     r \in Relations}
RelationResults ==
    {Raise(<<>>), Null(<<>>)} \cup {Ok(l) : l \in RelationLists}

\* accessors of a relation's endpoint task a relation loop may find raising
EndpointFaults == {"none", "getName", "getExternalTask", "getSuccessors"}

\* getAllTasks() returns the first k tasks; every task but the last carries
\* its handle as unique ID, the last one no identifier; task 1 has the
\* relations rels as predecessors, task 2 has them as successors, and one
\* accessor of task 2 may raise; task 1 alone is a summary task
LinkProject(k, rels, fault) ==
    [allTasks |-> Ok([i \in 1..k |-> i]), tasks |-> Null(<<>>),
     task |-> [h \in Handles |->
         [(IF h = NumTasks THEN NoIdent(h) ELSE UniqueH(h))
             EXCEPT !.predecessors = IF h = 1 THEN rels ELSE Null(<<>>),
                    !.successors = IF h = 2 THEN rels ELSE Null(<<>>),
                    !.summary = Ok(h = 1),
                    !.faulty = IF h = 2 THEN fault ELSE "none"]]]

\* what getWork() and its siblings may yield: no object, an object of zero
\* or MaxHours hours, an object whose duration float() rejects, or a raise
WorkResults == {Null(None), Ok(Double(0)), Ok(Double(MaxHours)),
                Ok(<<"junk">>), Raise(None)}

\* task 1 with every combination of work objects; the other tasks without
\* work objects but with a remaining work of zero
WorkProject(work, actual, remaining, baseline) ==
    [allTasks |-> AllInOrder, tasks |-> Null(<<>>),
     task |-> [h \in Handles |->
         IF h = 1
         THEN [UniqueH(h) EXCEPT !.work = work, !.actualWork = actual,
                                 !.remainingWork = remaining,
                                 !.baselineWork = baseline]
         ELSE [UniqueH(h) EXCEPT !.remainingWork = Ok(Double(0))]]]

\* arguments of a direct _task_id call
IntResults == {Raise(0), Null(0)} \cup {Ok(n) : n \in 0..MaxUid}
OutlineResults == {Raise(<<>>), Null(<<>>), Ok(<<>>), Ok(<<"1">>),
                   Ok(<<"1", ".", "2">>)}
Fallbacks == {<<>>, RowFallback(1), RowFallback(MaxUid)}
IdCall(isNone, uid, tid, outline, fb) ==
    [task |-> IF isNone THEN NoneTask
              ELSE MkTask(uid, tid, outline, Ok(<<"A">>), Ok(1), Ok(FALSE),
                          Null(0), Null(<<>>)),
     fallback |-> fb]

NoCall == [task |-> NoneTask, fallback |-> <<>>]

----------------------------------------------------------------------------
(* The /parse request handler and the steps of parse_file.                 *)

\* f missing -> 400; init_jvm() failed -> 500; otherwise the temporary file
\* is created and the upload saved into it
Parse_Request ==
    /\ pc = "request"
    /\ \E hasFile \in BOOLEAN, jvmOk \in BOOLEAN :
         IF ~hasFile
         THEN /\ response' = [status |-> 400,
                              body |-> [success |-> FALSE,
                                        error |-> "No file uploaded"]]
              /\ pc' = "done"
              /\ UNCHANGED tmpFile
         ELSE IF ~jvmOk
         THEN /\ response' = [status |-> 500,
                              body |-> [success |-> FALSE,
                                        error |-> "JVM Init Failed"]]
              /\ pc' = "done"
              /\ UNCHANGED tmpFile
         ELSE /\ tmpFile' = TRUE
              /\ pc' = "read"
              /\ UNCHANGED response
    /\ UNCHANGED <<project, candidates, tasks, all_tasks, result, exc,
                   idCall, idResult>>

\* parse_file steps 1-3: reader.read(path) and the project properties; the
\* reader returns one of the object graphs ParseProject builds or raises
ReadProject ==
    /\ pc = "read"
    /\ \E ok \in BOOLEAN :
         IF ok
         THEN /\ \E all \in AccResults(MaxAccLen, Handles),
                    top \in AccResults(1, Handles),
                    withUid \in IdentPrefixes, fault \in ExploredFaults :
                   project' = ParseProject(all, top, withUid, fault)
              /\ pc' = "collect"
              /\ UNCHANGED exc
         ELSE /\ exc' = "ReadError"
              /\ pc' = "except"
              /\ UNCHANGED project
    /\ UNCHANGED <<tmpFile, candidates, tasks, all_tasks, result, response,
                   idCall, idResult>>

\* tasks = self._collect_tasks(project)
CollectTasks ==
    /\ pc = "collect"
    /\ \E site \in RecursionErrorSites :
         LET r == _collect_tasks(site)
         IN  /\ candidates' = r.candidates
             /\ tasks' = r.deduped
             /\ exc' = r.error
             /\ pc' = IF r.raised THEN "except" ELSE "normalize"
    /\ UNCHANGED <<project, tmpFile, all_tasks, result, response,
                   idCall, idResult>>

\* for idx, task in enumerate(tasks): ... all_tasks.append(node)
NormalizeTasks ==
    /\ pc = "normalize"
    /\ LET r == normalize_loop(1, <<>>)
       IN  /\ all_tasks' = r.nodes
           /\ exc' = IF r.raised THEN "AccessorError" ELSE "none"
           /\ pc' = IF r.raised THEN "except" ELSE "classify"
    /\ UNCHANGED <<project, tmpFile, candidates, tasks, result, response,
                   idCall, idResult>>

\* the two hierarchy loops
ClassifyHierarchy ==
    /\ pc = "classify"
    /\ all_tasks' = classify(all_tasks)
    /\ pc' = "folders"
    /\ UNCHANGED <<project, tmpFile, candidates, tasks, result, exc, response,
                   idCall, idResult>>

\* the folder loop
BuildFolders ==
    /\ pc = "folders"
    /\ LET r == folder_loop(all_tasks, 1, <<>>)
       IN  /\ all_tasks' = r.nodes
           /\ exc' = IF r.raised THEN "RecursionError" ELSE "none"
           /\ pc' = IF r.raised THEN "except" ELSE "summary"
    /\ UNCHANGED <<project, tmpFile, candidates, tasks, result, response,
                   idCall, idResult>>

\* the statistics and the return statement
ReturnResult ==
    /\ pc = "summary"
    /\ result' = make_result(tasks, all_tasks)
    /\ pc' = "respond"
    /\ UNCHANGED <<project, tmpFile, candidates, tasks, all_tasks, exc,
                   response, idCall, idResult>>

\* parse(): os.remove(t.name); return jsonify(res)
Parse_Respond ==
    /\ pc = "respond"
    /\ tmpFile' = FALSE
    /\ response' = [status |-> 200, body |-> result]
    /\ pc' = "done"
    /\ UNCHANGED <<project, candidates, tasks, all_tasks, result, exc,
                   idCall, idResult>>

\* parse(): except Exception as e: return jsonify(success=False, error=str(e))
Parse_Except ==
    /\ pc = "except"
    /\ response' = [status |-> 500,
                    body |-> [success |-> FALSE, error |-> exc]]
    /\ pc' = "done"
    /\ UNCHANGED <<project, tmpFile, candidates, tasks, all_tasks, result, exc,
                   idCall, idResult>>

\* a direct call _task_id(task, fallback)
TaskIdCall ==
    /\ pc = "call"
    /\ idResult' = _task_id(idCall.task, idCall.fallback)
    /\ pc' = "returned"
    /\ UNCHANGED <<project, tmpFile, candidates, tasks, all_tasks, result, exc,
                   response, idCall>>

\* parse_file from step 4 on
ParseFile ==
    \/ CollectTasks
    \/ NormalizeTasks
    \/ ClassifyHierarchy
    \/ BuildFolders
    \/ ReturnResult

----------------------------------------------------------------------------
(* Specifications.                                                         *)

InitAt(start, p, c) ==
    /\ project = p
    /\ pc = start
    /\ tmpFile = (start = "collect")
    /\ candidates = <<>>
    /\ tasks = <<>>
    /\ all_tasks = <<>>
    /\ result = None
    /\ exc = "none"
    /\ response = None
    /\ idCall = c
    /\ idResult = None

\* a /parse request from its arrival to its response
Init == InitAt("request", NoProject, NoCall)
Next ==
    \/ Parse_Request
    \/ ReadProject
    \/ ParseFile
    \/ Parse_Respond
    \/ Parse_Except
Spec == Init /\ [][Next]_vars

\* _collect_tasks alone, over overlapping accessors
InitCollect ==
    \E all \in AccResults(MaxAccLen, Handles),
       top \in AccResults(1, 0..NumTasks),
       withUid \in IdentPrefixes, edges \in EdgeSets :
        InitAt("collect", CollectProject(all, top, withUid, edges), NoCall)
SpecCollect == InitCollect /\ [][CollectTasks]_vars

\* parse_file from the collection on, over outline levels
InitClassify ==
    \E levels \in [Handles -> LevelResults],
       summary \in BOOLEAN, nested \in BOOLEAN :
        InitAt("collect", ClassifyProject(levels, summary, nested), NoCall)
SpecClassify == InitClassify /\ [][ParseFile]_vars

\* parse_file from the collection on, over parent chains and names
InitFolder ==
    \E parents \in [Handles -> 0..NumTasks],
       renaming \in Renamings, anonymous \in BOOLEAN :
        InitAt("collect", FolderProject(parents, renaming, anonymous), NoCall)
SpecFolder == InitFolder /\ [][ParseFile]_vars

\* _task_id alone
InitId ==
    \E isNone \in BOOLEAN, uid \in IntResults, tid \in IntResults,
       outline \in OutlineResults, fb \in Fallbacks :
        InitAt("call", NoProject, IdCall(isNone, uid, tid, outline, fb))
SpecId == InitId /\ [][TaskIdCall]_vars

\* parse_file from the collection on, over predecessor / successor relations
InitLinks ==
    \E k \in Handles, rels \in RelationResults,
       fault \in EndpointFaults :
        InitAt("collect", LinkProject(k, rels, fault), NoCall)
SpecLinks == InitLinks /\ [][ParseFile]_vars

\* parse_file from the collection on, over the work values of a task
InitWork ==
    \E work \in WorkResults, actual \in WorkResults,
       remaining \in WorkResults, baseline \in WorkResults :
        InitAt("collect", WorkProject(work, actual, remaining, baseline),
               NoCall)
SpecWork == InitWork /\ [][ParseFile]_vars

\* _collect_tasks alone, over child-accessor graphs
InitDescent ==
    \E roots \in TreeRoots, children \in ChildGraphs :
        InitAt("collect", DescentProject(roots, children), NoCall)
SpecDescent == InitDescent /\ [][CollectTasks]_vars

----------------------------------------------------------------------------
(* Properties.                                                             *)

\* the stable identifier of every candidate, as the de-duplication sees it
CandIds == [i \in 1..Len(candidates) |->
                _task_id(Obj(candidates[i]), RowFallback(i))]

\* C1: _collect_tasks returns the candidates whose stable identifier
\* (_task_id with fallback "row-" + (candidate index + 1)) was not carried by
\* an earlier candidate: exactly one task per distinct identifier, the first
\* candidate carrying it, in candidate order.
C1_DedupFirstSeen ==
    pc = "normalize" =>
        LET ids == CandIds
            first == {i \in 1..Len(candidates) :
                         \A j \in 1..(i - 1) : ids[j] # ids[i]}
            rank == [i \in first |-> Cardinality({j \in first : j < i}) + 1]
        IN  /\ Len(tasks) = Cardinality(first)
            /\ \A i \in first : tasks[rank[i]] = candidates[i]
            /\ Cardinality({ids[i] : i \in 1..Len(candidates)}) = Len(tasks)

\* the accessors overlapped: a later candidate was dropped, and a task
\* without any identifier was kept under its positional fallback
C1_Witness ==
    /\ pc = "normalize"
    /\ Len(tasks) >= 2
    /\ Len(candidates) > Len(tasks)
    /\ \E k \in 1..Len(tasks) : Obj(tasks[k]).uniqueID.st = "null"

\* C2: in every successful response the id of every record is a non-empty
\* string and no two records share an id.
C2_IdsNonEmptyUnique ==
    (pc = "done" /\ response.status = 200) =>
        LET out == response.body.tasks
        IN  \A i \in 1..Len(out) :
              /\ out[i].id # <<>>
              /\ out[i].id # None
              /\ \A j \in 1..Len(out) : i # j => out[i].id # out[j].id

\* a successful response after duplicates were dropped, with a record whose
\* id is the positional fallback recomputed on the de-duplicated list
C2_Witness ==
    /\ pc = "done"
    /\ response.status = 200
    /\ Len(candidates) > Len(tasks)
    /\ \E k \in 2..Len(response.body.tasks) :
         /\ response.body.tasks[k].id = RowFallback(k)
         /\ \E i \in (k + 1)..Len(candidates) :
              /\ candidates[i] = tasks[k]
              /\ \A j \in 1..(i - 1) : candidates[j] # tasks[k]

\* C3: _task_id returns the first of str(unique ID), "task-" + display ID,
\* "outline-" + outline number, fallback that is available; a missing or
\* raising accessor only moves on; with a non-empty fallback the result is
\* non-empty.
C3_TaskIdFirstStrategy ==
    pc = "returned" =>
        LET t == idCall.task
            hasUid == t.uniqueID.st = "ok"
            hasTid == t.id.st = "ok"
            hasOutline == t.outlineNumber.st = "ok" /\ t.outlineNumber.v # <<>>
        IN  /\ hasUid => idResult = str_int(t.uniqueID.v)
            /\ (~hasUid /\ hasTid) => idResult = TaskPrefix \o str_int(t.id.v)
            /\ (~hasUid /\ ~hasTid /\ hasOutline) =>
                   idResult = OutlinePrefix \o t.outlineNumber.v
            /\ (~hasUid /\ ~hasTid /\ ~hasOutline) =>
                   idResult = idCall.fallback
            /\ idResult # None
            /\ idCall.fallback # <<>> => idResult # <<>>

\* every accessor of the task raised and the call returned the fallback
C3_Witness ==
    /\ pc = "returned"
    /\ idCall.task.uniqueID.st = "raise"
    /\ idCall.task.id.st = "raise"
    /\ idCall.task.outlineNumber.st = "raise"
    /\ idCall.fallback # <<>>
    /\ idResult = idCall.fallback

\* the hierarchy loops have run
Classified == pc \in {"folders", "summary", "respond"}

\* C4: with maxOutline the largest outline level of the records, a record
\* is 'project' at depth <= 1, 'unit' at depth 2, 'phase' at depth 3,
\* 'sub_task' at depth = maxOutline when maxOutline >= 5, 'task' otherwise;
\* so below the anchor 2 always 'project', from the anchor on never.
C4_TierByDepth ==
    Classified =>
        LET n == Len(all_tasks)
            depth(i) == all_tasks[i].outline_level
            tier(i) == all_tasks[i].hierarchy_type
        IN  \A i \in 1..n :
              LET deepest == \A j \in 1..n : depth(j) <= depth(i)
              IN  /\ depth(i) <= 1 => tier(i) = "project"
                  /\ depth(i) = 2 => tier(i) = "unit"
                  /\ depth(i) = 3 => tier(i) = "phase"
                  /\ (depth(i) >= 5 /\ deepest) => tier(i) = "sub_task"
                  /\ (depth(i) >= 4 /\ ~(depth(i) >= 5 /\ deepest)) =>
                         tier(i) = "task"
                  /\ depth(i) < 2 <=> tier(i) = "project"

\* a schedule with a project, a task that is not the deepest and a sub_task
C4_Witness ==
    /\ Classified
    /\ \E i, j, k \in 1..Len(all_tasks) :
         /\ all_tasks[i].hierarchy_type = "project"
         /\ all_tasks[j].hierarchy_type = "task"
         /\ all_tasks[j].outline_level = 4
         /\ all_tasks[k].hierarchy_type = "sub_task"

\* the folder loop has run to its end
FoldersBuilt == pc \in {"summary", "respond"}

\* the position of the record a parent_id names, 0 when it names none
ParentPos(i) ==
    IF all_tasks[i].parent_id = None THEN 0
    ELSE IF \E j \in 1..Len(all_tasks) : all_tasks[j].id = all_tasks[i].parent_id
         THEN CHOOSE j \in 1..Len(all_tasks) :
                  all_tasks[j].id = all_tasks[i].parent_id
         ELSE 0

\* folder(id) = folder(parentId) + " / " + parentName, or parentName alone
FolderIs(i, parentName) ==
    all_tasks[i].folder =
        IF ParentPos(i) = 0 THEN <<>>
        ELSE IF all_tasks[ParentPos(i)].folder # <<>>
             THEN all_tasks[ParentPos(i)].folder \o FolderSep \o parentName
             ELSE parentName

\* root -> mid -> leaf named "A", "B", "C"
ChainABC(r, m, l) ==
    /\ ParentPos(r) = 0 /\ ParentPos(m) = r /\ ParentPos(l) = m
    /\ all_tasks[r].name = <<"A">>
    /\ all_tasks[m].name = <<"B">>
    /\ all_tasks[l].name = <<"C">>

\* C5 as stated: parentName is the name of the parent record.
C5_FolderJoinsParentName ==
    FoldersBuilt =>
        \A i \in 1..Len(all_tasks) :
            FolderIs(i, IF ParentPos(i) = 0 THEN <<>>
                        ELSE all_tasks[ParentPos(i)].name)

\* C5: folder is empty without a resolved parent; otherwise it is
\* folder(parent) + " / " + parentName, or parentName alone when
\* folder(parent) is empty, where parentName is the parent's name with
\* surrounding whitespace stripped, or the parent's id (stripped) when the
\* parent's name is empty.  For root -> mid -> leaf named "A", "B", "C":
\* folder(leaf) = "A / B", folder(mid) = "A", folder(root) = "".
C5_FolderJoinsStrippedNameOrId ==
    FoldersBuilt =>
        /\ \A i \in 1..Len(all_tasks) :
              FolderIs(i, IF ParentPos(i) = 0 THEN <<>>
                          ELSE strip(IF all_tasks[ParentPos(i)].name # <<>>
                                     THEN all_tasks[ParentPos(i)].name
                                     ELSE all_tasks[ParentPos(i)].id))
        /\ \A r, m, l \in 1..Len(all_tasks) :
              ChainABC(r, m, l) =>
                  /\ all_tasks[l].folder = <<"A", " ", "/", " ", "B">>
                  /\ all_tasks[m].folder = <<"A">>
                  /\ all_tasks[r].folder = <<>>

\* the chain root -> mid -> leaf named "A", "B", "C" with its folders built
C5_Witness ==
    /\ FoldersBuilt
    /\ \E r, m, l \in 1..Len(all_tasks) :
         ChainABC(r, m, l) /\ all_tasks[l].folder = <<"A", " ", "/", " ", "B">>

\* C6: when a single per-task field accessor of a collected task raises
\* (name, outline level, summary flag, parent, resource assignments, work,
\* start / finish, percent complete, critical flag, total slack, notes), the
\* failure is absorbed: the record is still produced and the request still
\* answers success with one record per collected task.
C6_FieldFailureAbsorbed ==
    (/\ pc = "done"
     /\ \E k \in 1..Len(tasks) : Obj(tasks[k]).faulty \in UnguardedAccessors)
        => /\ response.status = 200
           /\ response.body.success
           /\ Len(response.body.tasks) = Len(tasks)

\* C7: the collection step returns a finite de-duplicated sequence for
\* every project, one whose child accessors form a cycle included.
C7_CollectionReturns ==
    pc # "collect" => (pc = "normalize" /\ exc = "none")

\* two records are each other's parent, or one record is its own
ParentCycle ==
    \E i, j \in 1..Len(all_tasks) :
        /\ all_tasks[i].parent_id = all_tasks[j].id
        /\ all_tasks[j].parent_id = all_tasks[i].id

\* C8: on a cyclic parent_id chain the folder loop terminates behind a
\* visited-set guard, the offending node gets an empty folder and parse_file
\* still succeeds.
C8_ParentCycleGuarded ==
    (ParentCycle /\ pc \in {"summary", "respond", "except"}) =>
        /\ pc # "except"
        /\ \A i \in 1..Len(all_tasks) :
              all_tasks[i].parent_id = all_tasks[i].id =>
                  all_tasks[i].folder = <<>>

\* C9: a response is all or nothing: a success carries exactly one record
\* per task _collect_tasks returned, in the same order, and
\* parsedTaskCount = collectedTaskCount = total_rows; a failure is
\* {success: false, error} and carries no task records.
C9_AllOrNothing ==
    pc = "done" =>
        IF response.status = 200
        THEN LET body == response.body
             IN  /\ body.success
                 /\ Len(body.tasks) = Len(tasks)
                 /\ \A k \in 1..Len(tasks) :
                      /\ body.tasks[k].name = str_or_empty(Obj(tasks[k]).name)
                      /\ body.tasks[k].outline_level =
                             Obj(tasks[k]).outlineLevel.v
                 /\ body.summary.taskCollection.parsedTaskCount = Len(tasks)
                 /\ body.summary.taskCollection.collectedTaskCount = Len(tasks)
                 /\ body.summary.total_rows = Len(tasks)
        ELSE /\ ~response.body.success
             /\ DOMAIN response.body = {"success", "error"}

\* a success whose response carries every collected task: several records,
\* distinguishable by name
C9_Witness ==
    /\ pc = "done"
    /\ response.status = 200
    /\ Len(response.body.tasks) >= 2
    /\ response.body.tasks[1].name # response.body.tasks[2].name

\* what an accessor yields when it is missing, raises or returns nothing
Nothing(acc) == acc.st # "ok" \/ acc.v = <<>>

\* C10: when the all-tasks and the top-level accessor are both missing,
\* raise or return nothing, _collect_tasks returns an empty sequence without
\* raising and parse_file succeeds with no tasks, total_rows 0, min / max
\* outline level 0, all tier counts 0 and coveragePercent 0.0.
C10_EmptyCollectionSucceeds ==
    (/\ project # NoProject
     /\ Nothing(project.allTasks)
     /\ Nothing(project.tasks)
     /\ pc # "collect") =>
        /\ exc = "none"
        /\ tasks = <<>>
        /\ pc = "done" =>
             /\ response.status = 200
             /\ response.body.success
             /\ response.body.tasks = <<>>
             /\ LET sm == response.body.summary
                IN  /\ sm.total_rows = 0
                    /\ sm.min_outline_level = 0
                    /\ sm.max_outline_level = 0
                    /\ sm.projects = 0 /\ sm.units = 0 /\ sm.phases = 0
                    /\ sm.tasks = 0 /\ sm.sub_tasks = 0
                    /\ sm.dependencies.coveragePercent = 0

\* the all-tasks accessor raised, the top-level accessor returned null and
\* the request was answered
C10_Witness ==
    /\ pc = "done"
    /\ project # NoProject
    /\ project.allTasks.st = "raise"
    /\ project.tasks.st = "null"
    /\ response.status = 200

\* the per-task loop has run to its end
Normalized == pc \in {"classify", "folders", "summary", "respond"}

\* the relations a task's getPredecessors() / getSuccessors() hands to the
\* loop (none when the accessor raises or returns null)
SourcePredecessors(h) ==
    LET a == call(Obj(h), "getPredecessors", Obj(h).predecessors)
    IN  IF a.st = "ok" THEN a.v ELSE <<>>
SourceSuccessors(h) ==
    LET a == call(Obj(h), "getSuccessors", Obj(h).successors)
    IN  IF a.st = "ok" THEN a.v ELSE <<>>

\* a relation with endpoint task e can be emitted: the endpoint is not null,
\* has an identifier without positional fallback, and nothing the link needs
\* raises
Emittable(rel, e) ==
    /\ e # 0
    /\ _task_id(Obj(e), <<>>) # <<>>
    /\ rel.lag.st # "raise"
    /\ Obj(e).name.st # "raise"
    /\ Obj(e).faulty \notin {"getName", "getExternalTask"}

\* C11: a relation whose endpoint task is null, whose endpoint identifier is
\* empty or whose processing raises is left out of the task's predecessors /
\* successors; every other relation of the task is emitted, in source order;
\* the task's record is still produced (a failure of the per-task loop is
\* never due to a relation); no emitted link has an empty endpoint id.
C11_BrokenRelationSkipped ==
    /\ Normalized =>
        /\ Len(all_tasks) = Len(tasks)
        /\ \A k \in 1..Len(tasks) :
             LET pend(r) == _extract_relation_tasks(r)[1]
                 send(r) == _extract_relation_tasks(r)[2]
                 preds == SelectSeq(SourcePredecessors(tasks[k]),
                                    LAMBDA r : Emittable(r, pend(r)))
                 succs == SelectSeq(SourceSuccessors(tasks[k]),
                                    LAMBDA r : Emittable(r, send(r)))
                 node == all_tasks[k]
             IN  /\ Len(node.predecessors) = Len(preds)
                 /\ Len(node.successors) = Len(succs)
                 /\ \A j \in 1..Len(preds) :
                      /\ node.predecessors[j].predecessorTaskId =
                             _task_id(Obj(pend(preds[j])), <<>>)
                      /\ node.predecessors[j].predecessorTaskId # <<>>
                 /\ \A j \in 1..Len(succs) :
                      /\ node.successors[j].successorTaskId =
                             _task_id(Obj(send(succs[j])), <<>>)
                      /\ node.successors[j].successorTaskId # <<>>
    /\ (pc = "except" /\ exc = "AccessorError") =>
        \E k \in 1..Len(tasks) : Obj(tasks[k]).faulty \in UnguardedAccessors

\* a record whose source relations were partly skipped and partly emitted
C11_Witness ==
    /\ Normalized
    /\ \E k \in 1..Len(tasks) :
         /\ all_tasks[k].predecessors # <<>>
         /\ Len(all_tasks[k].predecessors) < Len(SourcePredecessors(tasks[k]))
         /\ \E r \in Relations :
              /\ r.lag.st = "raise"
              /\ \E j \in 1..Len(SourcePredecessors(tasks[k])) :
                   SourcePredecessors(tasks[k])[j] = r

\* C12: in every result 0 <= coveragePercent <= 100 (kept in hundredths of a
\* percent), coveragePercent is 0.0 when there is no leaf, totalLeafTasks
\* counts the records that are not summary tasks, linkedLeafTasks those of
\* them with a predecessor or successor link, linkedLeafTasks <=
\* totalLeafTasks and isolatedLeafTasks = totalLeafTasks - linkedLeafTasks >= 0.
C12_CoverageBounds ==
    pc = "respond" =>
        LET out == result.tasks
            d == result.summary.dependencies
            leaves == {i \in 1..Len(out) : ~out[i].is_summary}
            linked == {i \in leaves : out[i].predecessors # <<>>
                                         \/ out[i].successors # <<>>}
        IN  /\ d.totalLeafTasks = Cardinality(leaves)
            /\ d.linkedLeafTasks = Cardinality(linked)
            /\ d.linkedLeafTasks <= d.totalLeafTasks
            /\ d.isolatedLeafTasks = d.totalLeafTasks - d.linkedLeafTasks
            /\ d.isolatedLeafTasks >= 0
            /\ d.coveragePercent >= 0
            /\ d.coveragePercent <= 10000
            /\ d.totalLeafTasks = 0 => d.coveragePercent = 0

\* a result with several leaves, some linked and some isolated
C12_Witness ==
    /\ pc = "respond"
    /\ result.summary.dependencies.linkedLeafTasks >= 1
    /\ result.summary.dependencies.isolatedLeafTasks >= 1
    /\ result.summary.dependencies.coveragePercent > 0
    /\ result.summary.dependencies.coveragePercent < 10000

\* the type of a relation names one of the four kinds: in upper case it
\* contains one of their long names, or without underscores it is one of
\* their two-letter codes
Recognised(t) ==
    LET up == upper(t)
    IN  \/ \E n \in {FinishStart, StartStart, FinishFinish, StartFinish} :
             contains(up, n)
        \/ SelectSeq(up, LAMBDA c : c # "_") \in
               {<<"F", "S">>, <<"S", "S">>, <<"F", "F">>, <<"S", "F">>}

\* C13: the relationship of every emitted predecessor or successor link is
\* one of FS, SS, FF, SF, and it is FS when the source relation's type is
\* absent, its accessor raises, or the type is not one of the four kinds.
C13_RelationshipKinds ==
    Normalized =>
        \A k \in 1..Len(tasks) :
            LET preds == SelectSeq(SourcePredecessors(tasks[k]),
                            LAMBDA r : Emittable(r, _extract_relation_tasks(r)[1]))
                succs == SelectSeq(SourceSuccessors(tasks[k]),
                            LAMBDA r : Emittable(r, _extract_relation_tasks(r)[2]))
                Kind(rel, link) ==
                    /\ link.relationship \in {"FS", "SS", "FF", "SF"}
                    /\ (rel.type.st # "ok" \/ ~Recognised(rel.type.v)) =>
                           link.relationship = "FS"
            IN  /\ Len(all_tasks[k].predecessors) = Len(preds)
                /\ Len(all_tasks[k].successors) = Len(succs)
                /\ \A j \in 1..Len(preds) :
                       Kind(preds[j], all_tasks[k].predecessors[j])
                /\ \A j \in 1..Len(succs) :
                       Kind(succs[j], all_tasks[k].successors[j])

\* links emitted for a relation of unrecognised type and for a plain one
C13_Witness ==
    /\ Normalized
    /\ \E k \in 1..Len(tasks) :
         LET src == SourceSuccessors(tasks[k])
             out == all_tasks[k].successors
         IN  /\ Len(src) >= 2
             /\ Len(out) = Len(src)
             /\ \E j \in 1..Len(src) :
                  /\ src[j].type = Ok(<<"X">>)
                  /\ out[j].relationship = "FS"

\* C14: remainingHours is null when the task has no remaining-work object and
\* 0.0 when that object reports a duration of zero; baselineHours,
\* actualHours and projectedHours are 0.0, never null, when their object is
\* absent.
C14_RemainingNullNotZero ==
    Normalized =>
        \A k \in 1..Len(tasks) :
            LET task == Obj(tasks[k])
                node == all_tasks[k]
            IN  /\ task.remainingWork.st = "null" => node.remainingHours = None
                /\ task.remainingWork = Ok(Double(0)) =>
                       node.remainingHours = Float(0)
                /\ task.baselineWork.st = "null" =>
                       node.baselineHours = Float(0)
                /\ task.actualWork.st = "null" => node.actualHours = Float(0)
                /\ task.work.st = "null" => node.projectedHours = Float(0)
                /\ None \notin {node.baselineHours, node.actualHours,
                                node.projectedHours}

\* one record without remaining-work object and without the other work
\* objects, next to a record whose remaining work is zero
C14_Witness ==
    /\ Normalized
    /\ Len(all_tasks) >= 2
    /\ Obj(tasks[1]).remainingWork.st = "null"
    /\ Obj(tasks[1]).work.st = "null"
    /\ all_tasks[1].remainingHours = None
    /\ all_tasks[1].projectedHours = Float(0)
    /\ all_tasks[2].remainingHours = Float(0)

\* the non-null tasks an accessor result lists
Listed(acc) == IF acc.st = "ok" THEN SelectSeq(acc.v, LAMBDA h : h # 0) ELSE <<>>

\* the tasks reachable from the tasks of S through child accessors, S included
RECURSIVE Reachable(_)
Reachable(S) ==
    LET next == S \cup {c \in DOMAIN project.task :
                           \E h \in S :
                               \E i \in 1..Len(Listed(Obj(h).childTasks)) :
                                   Listed(Obj(h).childTasks)[i] = c}
    IN  IF next = S THEN S ELSE Reachable(next)

\* no task reachable from the two accessors is its own descendant
AcyclicDescent ==
    LET roots == Listed(project.allTasks) \o Listed(project.tasks)
        kids(h) == {Listed(Obj(h).childTasks)[i] :
                       i \in 1..Len(Listed(Obj(h).childTasks))}
    IN  \A h \in Reachable({roots[i] : i \in 1..Len(roots)}) :
            kids(h) = {} \/ h \notin Reachable(kids(h))

\* the descendants of a task of an acyclic graph in depth-first pre-order
RECURSIVE PreOrder(_)
RECURSIVE PreOrderAll(_)
PreOrder(h) == PreOrderAll(Listed(Obj(h).childTasks))
PreOrderAll(hs) ==
    IF hs = <<>> THEN <<>>
    ELSE <<Head(hs)>> \o PreOrder(Head(hs)) \o PreOrderAll(Tail(hs))

RECURSIVE PreOrderEach(_)
PreOrderEach(roots) ==
    IF roots = <<>> THEN <<>>
    ELSE PreOrder(Head(roots)) \o PreOrderEach(Tail(roots))

\* C15: the candidate sequence is the non-null results of the all-tasks
\* accessor, then those of the top-level accessor, then for each candidate
\* of that snapshot in order its descendants in depth-first pre-order;
\* appended candidates are not used as roots again, and every task reachable
\* from a snapshot candidate through child accessors occurs in the sequence.
C15_CandidatesPreOrder ==
    pc = "normalize" =>
        LET snapshot == Listed(project.allTasks) \o Listed(project.tasks)
        IN  /\ Len(candidates) >= Len(snapshot)
            /\ SubSeq(candidates, 1, Len(snapshot)) = snapshot
            /\ \A h \in Reachable({snapshot[i] : i \in 1..Len(snapshot)}) :
                   \E i \in 1..Len(candidates) : candidates[i] = h
            /\ AcyclicDescent =>
                   candidates = snapshot \o PreOrderEach(snapshot)

\* a root with two children whose first child has a child of its own: the
\* grandchild comes before the second child
C15_Witness ==
    /\ pc = "normalize"
    /\ AcyclicDescent
    /\ candidates = <<1, 2, 4, 3>>

\* C16: a source task reached through more than one retrieval path (and not
\* sharing its identifier with another task) has exactly one record in a
\* successful response, also when it has no unique ID, display ID or outline
\* number and is identified by the positional fallback.
C16_OneRecordPerSourceTask ==
    (pc = "done" /\ response.status = 200) =>
        \A h \in Handles :
            LET paths == {i \in 1..Len(candidates) : candidates[i] = h}
                own == _task_id(Obj(h), <<>>)
                shared == \E i \in 1..Len(candidates) :
                              /\ candidates[i] # h
                              /\ own # <<>>
                              /\ _task_id(Obj(candidates[i]), <<>>) = own
                records == {k \in 1..Len(response.body.tasks) : tasks[k] = h}
            IN  (Cardinality(paths) >= 2 /\ ~shared) =>
                    Cardinality(records) = 1

\* C17: the override loop changes no record: after it every hierarchy_type is
\* the one the depth pass assigns (which depends on the outline levels
\* alone); a record the override touches has depth <= 1 and is 'project'
\* already, and a record of depth >= 2 keeps its type whatever its summary
\* flag or parent.
C17_OverrideChangesNothing ==
    Classified =>
        /\ all_tasks = depth_pass(all_tasks)
        /\ \A i \in 1..Len(all_tasks) :
             LET node == all_tasks[i]
                 byDepth == depth_pass(all_tasks)[i].hierarchy_type
             IN  /\ (node.outline_level <= 1
                        /\ (node.is_summary \/ node.parent_id = None)) =>
                         byDepth = "project"
                 /\ node.outline_level >= 2 =>
                         /\ node.hierarchy_type = byDepth
                         /\ node.hierarchy_type # "project"

\* a summary record without parent at depth >= 2, which the override leaves
\* alone, next to a root record the override rewrites to what it was
C17_Witness ==
    /\ Classified
    /\ \E i, j \in 1..Len(all_tasks) :
         /\ all_tasks[i].outline_level >= 2
         /\ all_tasks[i].is_summary
         /\ all_tasks[i].parent_id = None
         /\ all_tasks[i].hierarchy_type = "unit"
         /\ all_tasks[j].outline_level <= 1
         /\ all_tasks[j].is_summary
         /\ all_tasks[j].hierarchy_type = "project"

\* C18: in every successful result every predecessorTaskId and every
\* successorTaskId of a record is the id of some record of the same tasks
\* sequence.
C18_LinksResolveWithinOutput ==
    pc = "respond" =>
        LET out == result.tasks
            ids == {out[i].id : i \in 1..Len(out)}
        IN  \A i \in 1..Len(out) :
              /\ \A j \in 1..Len(out[i].predecessors) :
                     out[i].predecessors[j].predecessorTaskId \in ids
              /\ \A j \in 1..Len(out[i].successors) :
                     out[i].successors[j].successorTaskId \in ids

\* C19: once a /parse request has created its temporary upload file, that
\* file has been removed by the time the response is returned, whether
\* parse_file succeeded or raised.
C19_TempFileRemoved ==
    pc = "done" => ~tmpFile

====
